---- MODULE Spec2Model ----
(***************************************************************************)
(* Model of static/js/auth.js: the submit handlers of the sign-in and the  *)
(* sign-up form, the postJSON helper they share, and the browser state     *)
(* they touch (the two error fields, localStorage, window.location).       *)
(*                                                                         *)
(* A handler is an async function.  Its synchronous part runs at the       *)
(* submit event up to the fetch call inside postJSON; it then suspends     *)
(* twice (await fetch, await res.json()) and each resumption runs to the   *)
(* next suspension or to the end without interleaving.  Suspended handlers *)
(* are kept in the bag inflight.  The server and the network are the       *)
(* environment: every status, body and failure is possible.                *)
(*                                                                         *)
(* Form field values are sequences of one-character strings, so that       *)
(* String.prototype.trim is computed rather than assumed.                  *)
(***************************************************************************)
EXTENDS Naturals, Sequences, FiniteSets, Bags, TLC

VARIABLES
    signInError,   \* textContent of #signin-error
    signUpError,   \* textContent of #signup-error
    storage,       \* localStorage: a function from the keys present to strings
    href,          \* window.location.href
    inflight,      \* bag of suspended handlers [form, at, ok]
    nSubmits,      \* history: number of submit events so far
    nPassed,       \* history: submit events that passed the client-side check
    nRequests,     \* history: number of fetch calls issued
    last           \* history: the most recent event and what the handler did

vars == <<signInError, signUpError, storage, href, inflight,
          nSubmits, nPassed, nRequests, last>>

(* ------------------------------ bounds --------------------------------- *)

\* Submit events in one behaviour.
MaxSubmits == 2

(* --------------------------- input domains ----------------------------- *)

Whitespace == {" "}

\* Values typed into the name and email fields.
Texts == { <<"a">>, <<" ", "a">>, <<"a", " ">>, <<" ", "a", " ", "b", " ">>, <<" ">> }

\* Values typed into the password and confirm-password fields.
Passwords == { <<"p">>, <<"p", " ">>, <<" ", "p">> }

(* ------------------------ JavaScript values ---------------------------- *)
\* A primitive is [t, v]: its type and the string String(value) yields.

Undefined == [t |-> "undefined", v |-> "undefined"]
Str(s)    == [t |-> "string", v |-> s]

\* ToBoolean, as the || of line 17 applies it.
Truthy(x) ==
    CASE x.t = "undefined" -> FALSE
      [] x.t = "string"    -> x.v # ""
      [] OTHER             -> TRUE

\* ToJsString, as localStorage.setItem and new Error apply it.
ToJsString(x) == x.v

\* What the server may put in the token and message fields of a JSON object.
TokenFields   == { Undefined, Str("abc123"), Str("tok2") }
MessageFields == { Undefined, Str(""), Str("Invalid credentials") }

\* Values res.json() may resolve to.  token and message are what property
\* access yields: undefined on a number or on an object without the field.
\* On null a property access throws instead (see IsNullish).
JsonObjects == [t : {"object"}, token : TokenFields, message : MessageFields]
JsonNull    == [t |-> "null", token |-> Undefined, message |-> Undefined]
JsonNumber  == [t |-> "number", token |-> Undefined, message |-> Undefined]
JsonValues  == JsonObjects \cup {JsonNull, JsonNumber}

IsNullish(data) == data.t = "null"

\* Messages of the errors the platform raises.
FetchErrorMessages == { "Failed to fetch" }
JsonErrorMessages  == { "Unexpected token < in JSON at position 0" }
ReadOfNullMessage  == "Cannot read properties of null (reading 'message')"
DestructureNullMessage == "Cannot destructure property 'token' of null"

(* ---------------------------- String.trim ------------------------------ *)

RECURSIVE TrimStart(_)
TrimStart(s) ==
    IF s # <<>> /\ Head(s) \in Whitespace THEN TrimStart(Tail(s)) ELSE s

RECURSIVE TrimEnd(_)
TrimEnd(s) ==
    IF s # <<>> /\ s[Len(s)] \in Whitespace
    THEN TrimEnd(SubSeq(s, 1, Len(s) - 1))
    ELSE s

Trim(s) == TrimEnd(TrimStart(s))

(* ------------------------------ effects -------------------------------- *)
\* What a run of handler code does to the browser, in program order.

SetError(el, text)  == [op |-> "setError", el |-> el, text |-> text]
Fetch(url, payload) == [op |-> "fetch", url |-> url, payload |-> payload]
SetItem(key, value) == [op |-> "setItem", key |-> key, value |-> value]
Navigate(to)        == [op |-> "navigate", to |-> to]

Return(value) == [kind |-> "return", value |-> value]
Throw(message) == [kind |-> "throw", message |-> message]

\* The outcome of a run of handler code: its effects and whether an
\* exception left the handler.
Ran(effects)     == [effects |-> effects, escaped |-> FALSE]
Escaped(effects) == [effects |-> effects, escaped |-> TRUE]

RECURSIVE ErrorAfter(_, _, _)
ErrorAfter(el, effects, cur) ==
    IF effects = <<>> THEN cur
    ELSE ErrorAfter(el, Tail(effects),
                    IF Head(effects).op = "setError" /\ Head(effects).el = el
                    THEN Head(effects).text ELSE cur)

RECURSIVE StorageAfter(_, _)
StorageAfter(effects, cur) ==
    IF effects = <<>> THEN cur
    ELSE StorageAfter(Tail(effects),
                      IF Head(effects).op = "setItem"
                      THEN (Head(effects).key :> Head(effects).value) @@ cur
                      ELSE cur)

RECURSIVE HrefAfter(_, _)
HrefAfter(effects, cur) ==
    IF effects = <<>> THEN cur
    ELSE HrefAfter(Tail(effects),
                   IF Head(effects).op = "navigate" THEN Head(effects).to ELSE cur)

Ops(effects) == [i \in DOMAIN effects |-> effects[i].op]

CountOp(effects, op) == Cardinality({i \in DOMAIN effects : effects[i].op = op})

(* ------------------------------ postJSON ------------------------------- *)

\* Lines 11-15: the request postJSON issues.
PostJSONRequest(url, payload) == Fetch(url, payload)

\* postJSON with the message of the body dropped from the error.
PostJSONResultNoMessage(ok, data) ==
    IF ~ok
    THEN IF IsNullish(data)
         THEN Throw(ReadOfNullMessage)
         ELSE Throw("Request failed")
    ELSE Return(data)

\* postJSON without the res.ok test of line 17.
PostJSONResultIgnoresStatus(ok, data) == Return(data)

\* Lines 17-18, once res.json() has resolved to data.
PostJSONResult(ok, data) ==
    IF ~ok
    THEN IF IsNullish(data)
         THEN Throw(ReadOfNullMessage)
         ELSE Throw(IF Truthy(data.message) THEN ToJsString(data.message)
                    ELSE "Request failed")
    ELSE Return(data)

(* --------------------------- sign-in handler --------------------------- *)

\* The sign-in handler with the password trimmed like the email.
SignInSyncTrimsPassword(email, password) ==
    Ran(<< SetError("signin-error", ""),
           PostJSONRequest("/api/auth/signin",
                           [email |-> Trim(email), password |-> Trim(password)]) >>)

\* The sign-in handler without line 25.
SignInSyncKeepsError(email, password) ==
    Ran(<< PostJSONRequest("/api/auth/signin",
                           [email |-> Trim(email), password |-> password]) >>)

\* The sign-in handler returning early while a sign-in request is in flight.
SignInSyncDedup(email, password) ==
    IF \E h \in BagToSet(inflight) : h.form = "signin"
    THEN Ran(<< SetError("signin-error", "") >>)
    ELSE Ran(<< SetError("signin-error", ""),
                PostJSONRequest("/api/auth/signin",
                                [email |-> Trim(email), password |-> password]) >>)

\* Lines 24-31: the synchronous part, up to the fetch call.
SignInSync(email, password) ==
    Ran(<< SetError("signin-error", ""),
           PostJSONRequest("/api/auth/signin",
                           [email |-> Trim(email), password |-> password]) >>)

\* The sign-in handler storing the response body instead of its token.
SignInResumeStoresBody(result) ==
    IF result.kind = "throw"
    THEN Ran(<< SetError("signin-error", result.message) >>)
    ELSE Ran(<< SetItem("token", "[object Object]"), Navigate("/") >>)

\* The sign-in handler with the destructuring of line 31 outside the try.
SignInResumeUncaught(result) ==
    IF result.kind = "throw"
    THEN Ran(<< SetError("signin-error", result.message) >>)
    ELSE IF IsNullish(result.value)
         THEN Escaped(<< >>)
         ELSE Ran(<< SetItem("token", ToJsString(result.value.token)),
                     Navigate("/") >>)

\* Lines 30-36: the try/catch around the awaited postJSON call.
SignInResume(result) ==
    IF result.kind = "throw"
    THEN Ran(<< SetError("signin-error", result.message) >>)
    ELSE IF IsNullish(result.value)
         THEN Ran(<< SetError("signin-error", DestructureNullMessage) >>)
         ELSE Ran(<< SetItem("token", ToJsString(result.value.token)),
                     Navigate("/") >>)

(* --------------------------- sign-up handler --------------------------- *)

\* The sign-up handler without the return of line 53.
SignUpSyncNoReturn(name, email, password, confirmPassword) ==
    IF password # confirmPassword
    THEN Ran(<< SetError("signup-error", ""),
                SetError("signup-error", "Passwords do not match."),
                PostJSONRequest("/api/auth/signup",
                                [name |-> Trim(name), email |-> Trim(email),
                                 password |-> password]) >>)
    ELSE Ran(<< SetError("signup-error", ""),
                PostJSONRequest("/api/auth/signup",
                                [name |-> Trim(name), email |-> Trim(email),
                                 password |-> password]) >>)

\* Lines 43-57: the synchronous part, up to the return or the fetch call.
SignUpSync(name, email, password, confirmPassword) ==
    IF password # confirmPassword
    THEN Ran(<< SetError("signup-error", ""),
                SetError("signup-error", "Passwords do not match.") >>)
    ELSE Ran(<< SetError("signup-error", ""),
                PostJSONRequest("/api/auth/signup",
                                [name |-> Trim(name), email |-> Trim(email),
                                 password |-> password]) >>)

\* The sign-up handler with an empty catch block.
SignUpResumeSilentCatch(result) ==
    IF result.kind = "throw" \/ IsNullish(result.value)
    THEN Ran(<< >>)
    ELSE Ran(<< SetItem("token", ToJsString(result.value.token)),
                Navigate("/") >>)

\* Lines 56-62: the try/catch around the awaited postJSON call.
SignUpResume(result) ==
    IF result.kind = "throw"
    THEN Ran(<< SetError("signup-error", result.message) >>)
    ELSE IF IsNullish(result.value)
         THEN Ran(<< SetError("signup-error", DestructureNullMessage) >>)
         ELSE Ran(<< SetItem("token", ToJsString(result.value.token)),
                     Navigate("/") >>)

Resume(form, result) ==
    IF form = "signin" THEN SignInResume(result) ELSE SignUpResume(result)

(* ------------------------------- state --------------------------------- *)

NoStorage == [k \in {} |-> ""]

Suspended(form, at, ok) == [form |-> form, at |-> at, ok |-> ok]

\* The page as loaded: empty error fields, no request in flight, and a
\* localStorage that may hold a token of an earlier session.
Init ==
    /\ signInError = ""
    /\ signUpError = ""
    /\ storage \in { NoStorage, "token" :> "earlier" }
    /\ href = "/auth"
    /\ inflight = EmptyBag
    /\ nSubmits = 0
    /\ nPassed = 0
    /\ nRequests = 0
    /\ last = [kind |-> "load"]

\* The browser state after a run of handler code.
Perform(run) ==
    /\ signInError' = ErrorAfter("signin-error", run.effects, signInError)
    /\ signUpError' = ErrorAfter("signup-error", run.effects, signUpError)
    /\ storage' = StorageAfter(run.effects, storage)
    /\ href' = HrefAfter(run.effects, href)
    /\ nRequests' = nRequests + CountOp(run.effects, "fetch")

\* A submit event on the sign-in form.
SignInSubmit(email, password) ==
    LET run == SignInSync(email, password) IN
    /\ nSubmits < MaxSubmits
    /\ Perform(run)
    /\ inflight' = IF CountOp(run.effects, "fetch") > 0
                   THEN inflight (+) SetToBag({Suspended("signin", "fetch", FALSE)})
                   ELSE inflight
    /\ nSubmits' = nSubmits + 1
    /\ nPassed' = nPassed + 1
    /\ last' = [kind |-> "submit", form |-> "signin",
                raw |-> [email |-> email, password |-> password],
                shown |-> signInError, run |-> run]

\* A submit event on the sign-up form.
SignUpSubmit(name, email, password, confirmPassword) ==
    LET run == SignUpSync(name, email, password, confirmPassword) IN
    /\ nSubmits < MaxSubmits
    /\ Perform(run)
    /\ inflight' = IF CountOp(run.effects, "fetch") > 0
                   THEN inflight (+) SetToBag({Suspended("signup", "fetch", FALSE)})
                   ELSE inflight
    /\ nSubmits' = nSubmits + 1
    /\ nPassed' = nPassed + (IF password = confirmPassword THEN 1 ELSE 0)
    /\ last' = [kind |-> "submit", form |-> "signup",
                raw |-> [name |-> name, email |-> email, password |-> password,
                         confirmPassword |-> confirmPassword],
                shown |-> signUpError, run |-> run]

\* Line 11: fetch resolves with a response of either status class; the
\* handler goes on to line 16 and suspends on res.json().
FetchResolves(h, ok) ==
    /\ BagIn(h, inflight)
    /\ h.at = "fetch"
    /\ inflight' = (inflight (-) SetToBag({h}))
                      (+) SetToBag({Suspended(h.form, "json", ok)})
    /\ last' = [kind |-> "response", form |-> h.form, ok |-> ok]
    /\ UNCHANGED <<signInError, signUpError, storage, href,
                   nSubmits, nPassed, nRequests>>

\* Line 11: fetch rejects (network failure); the rejection propagates out
\* of postJSON into the handler.
FetchRejects(h, message) ==
    LET run == Resume(h.form, Throw(message)) IN
    /\ BagIn(h, inflight)
    /\ h.at = "fetch"
    /\ Perform(run)
    /\ inflight' = inflight (-) SetToBag({h})
    /\ last' = [kind |-> "complete", form |-> h.form, outcome |-> "network",
                run |-> run]
    /\ UNCHANGED <<nSubmits, nPassed>>

\* Line 16: res.json() resolves to data; postJSON returns or throws and the
\* handler runs to its end.
JsonResolves(h, data) ==
    LET run == Resume(h.form, PostJSONResult(h.ok, data)) IN
    /\ BagIn(h, inflight)
    /\ h.at = "json"
    /\ Perform(run)
    /\ inflight' = inflight (-) SetToBag({h})
    /\ last' = [kind |-> "complete", form |-> h.form, outcome |-> "json",
                ok |-> h.ok, data |-> data, run |-> run]
    /\ UNCHANGED <<nSubmits, nPassed>>

\* Line 16: res.json() rejects (the body is not JSON).
JsonRejects(h, message) ==
    LET run == Resume(h.form, Throw(message)) IN
    /\ BagIn(h, inflight)
    /\ h.at = "json"
    /\ Perform(run)
    /\ inflight' = inflight (-) SetToBag({h})
    /\ last' = [kind |-> "complete", form |-> h.form, outcome |-> "notjson",
                ok |-> h.ok, run |-> run]
    /\ UNCHANGED <<nSubmits, nPassed>>

Handlers == [form : {"signin", "signup"}, at : {"fetch", "json"}, ok : BOOLEAN]

Next ==
    \/ \E email \in Texts, password \in Passwords : SignInSubmit(email, password)
    \/ \E name \in Texts, email \in Texts, password \in Passwords,
          confirmPassword \in Passwords :
            SignUpSubmit(name, email, password, confirmPassword)
    \/ \E h \in Handlers, ok \in BOOLEAN : FetchResolves(h, ok)
    \/ \E h \in Handlers, message \in FetchErrorMessages : FetchRejects(h, message)
    \/ \E h \in Handlers, data \in JsonValues : JsonResolves(h, data)
    \/ \E h \in Handlers, message \in JsonErrorMessages : JsonRejects(h, message)

Spec == Init /\ [][Next]_vars

(* ============================== properties ============================= *)

ErrorOf(form) == IF form = "signin" THEN signInError ELSE signUpError

\* The most recent event is a submit event / the end of a handler that had
\* issued a request.
Submitted == last.kind = "submit"
Completed == last.kind = "complete"

Did(op) == CountOp(last.run.effects, op) > 0

Mismatch == /\ Submitted
            /\ last.form = "signup"
            /\ last.raw.password # last.raw.confirmPassword

\* The request was answered with a status outside 200-299.
NonSuccess == Completed /\ last.outcome \in {"json", "notjson"} /\ ~last.ok

\* The request was answered with a success status and a JSON body.
SuccessJson == Completed /\ last.outcome = "json" /\ last.ok

\* A step that is a submit event.
SubmitStep == nSubmits' = nSubmits + 1

(* ---- C1 ---- *)
\* C1: a sign-up submission whose password differs from its confirm-password
\* issues no request and suspends no handler, leaves "Passwords do not
\* match." in the signup-error field, and changes neither localStorage nor
\* the location.
C1_MismatchAborts ==
    [][ (SubmitStep /\ Mismatch')
          => /\ nRequests' = nRequests
             /\ inflight' = inflight
             /\ signUpError' = "Passwords do not match."
             /\ storage' = storage
             /\ href' = href ]_vars

C1_Witness ==
    /\ Mismatch
    /\ signUpError = "Passwords do not match."
    /\ "token" \in DOMAIN storage
    /\ nRequests = 0

(* ---- C2 ---- *)
\* C2: when a request of either form is answered with a success status and
\* a JSON object whose token is the string t, the handler writes t to the
\* storage entry token and then navigates to "/".
C2_SuccessStoresToken ==
    (SuccessJson /\ last.data.t = "object" /\ last.data.token.t = "string")
      => /\ "token" \in DOMAIN storage
         /\ storage["token"] = last.data.token.v
         /\ href = "/"
         /\ Ops(last.run.effects) = << "setItem", "navigate" >>

C2_Witness ==
    /\ SuccessJson
    /\ last.form = "signup"
    /\ last.data.t = "object"
    /\ last.data.token = Str("tok2")
    /\ storage = ("token" :> "tok2")
    /\ href = "/"

(* ---- C3 ---- *)
\* The message field of the response body, if the body has one.
HasMessage == last.outcome = "json" /\ last.data.message.t # "undefined"

\* C3 as stated: after any non-success answer the error field reads the
\* body's message if one is present and otherwise "Request failed", and the
\* handler neither writes to storage nor navigates.
C3_AsStated ==
    NonSuccess
      => /\ ErrorOf(last.form) = IF HasMessage THEN last.data.message.v
                                 ELSE "Request failed"
         /\ ~Did("setItem")
         /\ ~Did("navigate")

\* C3 amended: after a non-success answer the handler neither writes to
\* storage nor navigates, and the error field reads: the body's message when
\* the body is JSON other than null and its message is a non-empty string;
\* "Request failed" when that body has no message or an empty one; the
\* message of the error raised by res.json() when the body is not JSON; the
\* message of the TypeError raised by reading .message when the body is null.
C3_NonSuccessMessage ==
    NonSuccess
      => /\ CASE last.outcome = "notjson"
                  -> ErrorOf(last.form) \in JsonErrorMessages
               [] last.data.t = "null"
                  -> ErrorOf(last.form) = ReadOfNullMessage
               [] last.data.message.t = "string" /\ last.data.message.v # ""
                  -> ErrorOf(last.form) = last.data.message.v
               [] OTHER
                  -> ErrorOf(last.form) = "Request failed"
         /\ ~Did("setItem")
         /\ ~Did("navigate")

C3_Witness ==
    /\ NonSuccess
    /\ last.form = "signin"
    /\ last.outcome = "json"
    /\ last.data.message = Str("Invalid credentials")
    /\ signInError = "Invalid credentials"
    /\ href = "/auth"

(* ---- C4 ---- *)
\* C4: when the request of a sign-up submission ends in a network failure
\* or in a body that is not JSON, under either status class, the
\* signup-error field is non-empty at the end of the handler and the handler
\* does not write to storage.
C4_TransportError ==
    (Completed /\ last.form = "signup" /\ last.outcome \in {"network", "notjson"})
      => /\ signUpError # ""
         /\ ~Did("setItem")

C4_Witness ==
    /\ Completed
    /\ last.form = "signup"
    /\ last.outcome = "notjson"
    /\ last.ok
    /\ signUpError \in JsonErrorMessages

(* ---- C5 ---- *)
\* C5: no run of handler code lets an exception escape, and a handler ends
\* either with a write to storage followed by navigation or with an
\* assignment to its own form's error field as its final effect.
EndsWithError ==
    LET e == last.run.effects IN
    /\ e # << >>
    /\ e[Len(e)].op = "setError"
    /\ e[Len(e)].el = (IF last.form = "signin" THEN "signin-error" ELSE "signup-error")

C5_NothingEscapes ==
    /\ (Submitted \/ Completed) => ~last.run.escaped
    /\ (Completed \/ Mismatch)
         => \/ Ops(last.run.effects) = << "setItem", "navigate" >>
            \/ EndsWithError

C5_Witness ==
    /\ SuccessJson
    /\ last.form = "signin"
    /\ last.data.t = "null"
    /\ signInError = DestructureNullMessage
    /\ ~last.run.escaped

(* ---- C6 ---- *)
\* C6 as stated: every write of the storage entry token by a handler writes
\* a token string that the server returned in the success response the
\* handler received.
C6_AsStated ==
    (Completed /\ Did("setItem"))
      => /\ SuccessJson
         /\ last.data.token.t = "string"
         /\ storage["token"] = last.data.token.v

(* ---- C7 ---- *)
\* C7: the number of requests issued equals the number of submit events
\* that passed the client-side check, and each such submit event adds one
\* suspended handler while every handler already in flight stays in flight.
C7_OneRequestPerSubmit ==
    /\ [](nRequests = nPassed)
    /\ [][ (SubmitStep /\ ~Mismatch')
             => /\ nRequests' = nRequests + 1
                /\ BagCardinality(inflight') = BagCardinality(inflight) + 1
                /\ \A h \in BagToSet(inflight) :
                      CopiesIn(h, inflight') >= CopiesIn(h, inflight) ]_vars

C7_Witness ==
    /\ Submitted
    /\ last.form = "signin"
    /\ nRequests = 2
    /\ CopiesIn(Suspended("signin", "fetch", FALSE), inflight) = 2

(* ---- C8 ---- *)
\* t is s without its leading and trailing whitespace.
IsTrimOf(t, s) ==
    /\ \E i, j \in 0..Len(s) :
          /\ i + j <= Len(s)
          /\ t = SubSeq(s, i + 1, Len(s) - j)
          /\ \A k \in 1..i : s[k] \in Whitespace
          /\ \A k \in (Len(s) - j + 1)..Len(s) : s[k] \in Whitespace
    /\ t # << >> => (t[1] \notin Whitespace /\ t[Len(t)] \notin Whitespace)

\* The requests issued at the most recent submit event.
Sent == LET e == last.run.effects IN
        { e[i].payload : i \in {k \in DOMAIN e : e[k].op = "fetch"} }

\* C8: a sign-in submission sends {email, password} with the email trimmed
\* and the password as entered; a sign-up submission sends a request exactly
\* when the untrimmed password and confirm-password are equal, and then
\* sends {name, email, password} with name and email trimmed and the
\* password as entered.
C8_TrimmedFields ==
    Submitted =>
      IF last.form = "signin"
      THEN /\ Cardinality(Sent) = 1
           /\ \A p \in Sent :
                /\ DOMAIN p = {"email", "password"}
                /\ IsTrimOf(p.email, last.raw.email)
                /\ p.password = last.raw.password
      ELSE /\ (Sent # {}) <=> (last.raw.password = last.raw.confirmPassword)
           /\ \A p \in Sent :
                /\ DOMAIN p = {"name", "email", "password"}
                /\ IsTrimOf(p.name, last.raw.name)
                /\ IsTrimOf(p.email, last.raw.email)
                /\ p.password = last.raw.password

C8_Witness ==
    /\ Submitted
    /\ last.form = "signin"
    /\ last.raw.email = << " ", "a", " ", "b", " " >>
    /\ last.raw.password = << "p", " " >>
    /\ Sent = { [email |-> << "a", " ", "b" >>, password |-> << "p", " " >>] }

(* ---- C9 ---- *)
\* C9 as stated: right after a submit event that issued a request, the
\* form's error field still shows the text it showed before the event.
C9_AsStated ==
    (Submitted /\ Did("fetch")) => ErrorOf(last.form) = last.shown

\* C9 amended: a submission clears the form's error field at the submit
\* event: right after a submit event that issued a request the field is
\* empty, whatever text an earlier failed submission left in it.
C9_SubmitClearsError ==
    (Submitted /\ Did("fetch")) => ErrorOf(last.form) = ""

C9_Witness ==
    /\ Submitted
    /\ Did("fetch")
    /\ last.form = "signin"
    /\ last.shown = "Invalid credentials"
    /\ signInError = ""

(* ---- C10 ---- *)
\* C10: storage and the location change only in the final step of a handler
\* whose request was answered with a success status and a JSON body, that
\* step writes the entry token and then navigates to "/"; a handler whose
\* request failed (network failure, non-JSON body, non-success status) or
\* that aborted on a password mismatch neither writes nor navigates.
C10_NavigateAfterWrite ==
    /\ []( (Submitted \/ Completed)
             => /\ (Did("navigate") \/ Did("setItem"))
                   => /\ SuccessJson
                      /\ last.run.effects[1] = SetItem("token", storage["token"])
                      /\ last.run.effects[2] = Navigate("/")
                      /\ Len(last.run.effects) = 2
                /\ (Mismatch \/ (Completed /\ ~SuccessJson))
                   => ~Did("navigate") /\ ~Did("setItem") )
    /\ [][ (storage' # storage \/ href' # href) => SuccessJson' ]_vars

C10_Witness ==
    /\ SuccessJson
    /\ Did("navigate")
    /\ href = "/"
    /\ \E h \in BagToSet(inflight) : h.form = last.form

====
